---------------------------- MODULE Spec2Model ----------------------------
(***************************************************************************)
(* QueueCTL: the job table (queuectl/storage.py), the job entity and its   *)
(* retry logic (queuectl/job.py) and the worker loop (queuectl/worker.py). *)
(*                                                                         *)
(* Timestamps are integers read off a global clock; SQL NULL / Python None *)
(* is NULL for timestamps and NONE for the error message.  Every storage   *)
(* call is one SQL statement and is modelled as one atomic step; a worker  *)
(* iteration is the sequence of its storage calls.                         *)
(***************************************************************************)
EXTENDS Integers, FiniteSets, Sequences, TLC

\* ------------------------------------------------------------------ bounds
MaxClock == 2          \* the clock runs from 0 to MaxClock
MaxRetriesIn == 2      \* enqueue draws max_retries from 0 .. MaxRetriesIn
MaxResets == 1         \* DLQ resets per job
MaxAttemptsIn == 2     \* SpecBackoff: failures a job has behind it at the start
MaxCount == 2          \* start_workers draws count from 0 .. MaxCount
MaxPid == 3            \* process identifiers run from 1 to MaxPid
MaxLimit == 2          \* get_pending_jobs draws limit from 0 .. MaxLimit

\* --------------------------------------------------------------- constants
BackoffBase == 2       \* DEFAULT_CONFIG["backoff_base"]

JobIds == {"j1", "j2"}
Workers == {"w1", "w2"}
\* What a command does when run: always exit non-zero, or either exit status.
Commands == {"fail", "flaky"}
RetryInputs == 0 .. MaxRetriesIn

NULL == 0 - 1
NONE == "None"
ErrMsg == "exit"       \* a captured, non-empty failure message

VARIABLES
  jobs,       \* the jobs table: id -> row, for the ids that were inserted
  clock,      \* datetime.utcnow()
  pc,         \* each worker's position in the loop of _worker_process
  job_data,   \* each worker's pending_jobs[0], read by get_pending_jobs
  hist,       \* per job: what has happened to it (history, not program state)
  ret,        \* the last direct call of a JobStorage method and what it returned
  pid_file,   \* the worker_pid_file: NoFile or its JSON content
  procs,      \* the process identifiers in use: pid |-> "worker" or "foreign"
  running     \* WorkerManager.running of the manager instance

vars == <<jobs, clock, pc, job_data, hist, ret, pid_file, procs, running>>

\* what the worker loop and the job operations leave alone
rest == <<ret, pid_file, procs, running>>

States == {"pending", "processing", "completed", "failed", "dead"}

RECURSIVE Pow(_, _)
Pow(b, n) == IF n <= 0 THEN 1 ELSE b * Pow(b, n - 1)

\* ------------------------------------------------------------ job entity
\* should_retry with <= for <
ShouldRetry_Inclusive(job) == job.attempts <= job.max_retries

\* Job.should_retry
ShouldRetry(job) == job.attempts < job.max_retries

\* calculate_next_retry with a delay of backoff_base * attempts
CalculateNextRetry_Linear(job, now) == now + BackoffBase * job.attempts

\* Job.calculate_next_retry
CalculateNextRetry(job, now) == now + Pow(BackoffBase, job.attempts)

\* mark_for_retry putting the job back to pending for its retry
MarkForRetry_Requeue(job, now) ==
  LET inc == [job EXCEPT !.attempts = job.attempts + 1]
  IN  IF ShouldRetry(inc)
      THEN [inc EXCEPT !.state = "pending",
                       !.next_retry_at = CalculateNextRetry(inc, now)]
      ELSE [inc EXCEPT !.state = "dead", !.next_retry_at = NULL]

\* Job.mark_for_retry
MarkForRetry(job, now) ==
  LET inc == [job EXCEPT !.attempts = job.attempts + 1]
  IN  IF ShouldRetry(inc)
      THEN [inc EXCEPT !.state = "failed",
                       !.next_retry_at = CalculateNextRetry(inc, now)]
      ELSE [inc EXCEPT !.state = "dead", !.next_retry_at = NULL]

\* Job.mark_failed
MarkFailed(job, error_message, now) ==
  MarkForRetry([job EXCEPT !.error_message = error_message], now)

\* Job.mark_completed
MarkCompleted(job, now) ==
  [job EXCEPT !.state = "completed", !.completed_at = now]

\* Job.execute: the outcomes (success, error_msg) the command can produce
Execute(command) ==
  IF command = "fail" THEN {<<FALSE, ErrMsg>>}
                      ELSE {<<TRUE, NONE>>, <<FALSE, ErrMsg>>}

\* --------------------------------------------------------------- storage
\* JobStorage.create_job: the inserted row
NewRow(job_id, command, max_retries, now) ==
  [id |-> job_id, command |-> command, state |-> "pending", attempts |-> 0,
   max_retries |-> max_retries, next_retry_at |-> NULL, created_at |-> now,
   updated_at |-> now, completed_at |-> NULL, error_message |-> NONE]

\* the readiness predicate with next_retry_at < now for <=
ReadyWhere_Strict(row, now) ==
  /\ row.state = "pending" \/ row.state = "failed"
  /\ row.next_retry_at = NULL \/ row.next_retry_at < now

\* the readiness predicate excluding the terminal states instead of naming
\* the ready ones
ReadyWhere_NotTerminal(row, now) ==
  /\ row.state # "completed" /\ row.state # "dead"
  /\ row.next_retry_at = NULL \/ row.next_retry_at <= now

\* The readiness predicate shared by get_pending_jobs and acquire_job
ReadyWhere(row, now) ==
  /\ row.state = "pending" \/ row.state = "failed"
  /\ row.next_retry_at = NULL \/ row.next_retry_at <= now

\* acquire_job without the next_retry_at condition
AcquireWhere_NoBackoff(table, job_id, now) ==
  /\ job_id \in DOMAIN table
  /\ table[job_id].state = "pending" \/ table[job_id].state = "failed"

\* acquire_job as UPDATE ... WHERE id = ? alone
AcquireWhere_IdOnly(table, job_id, now) == job_id \in DOMAIN table

\* JobStorage.acquire_job: the WHERE clause of its UPDATE
AcquireWhere(table, job_id, now) ==
  /\ job_id \in DOMAIN table
  /\ ReadyWhere(table[job_id], now)

\* JobStorage.get_pending_jobs: the rows its WHERE clause selects
ReadyRows(table, now) == {j \in DOMAIN table : ReadyWhere(table[j], now)}

\* JobStorage.get_pending_jobs(limit=1): the rows it may return first
PendingJobs(table, now) ==
  LET ready == {j \in DOMAIN table : ReadyWhere(table[j], now)}
  IN  {j \in ready : \A k \in ready : table[j].created_at <= table[k].created_at}

\* the orders in which ORDER BY created_at DESC can list the ids of ids
OrderByCreatedAt_Desc(table, ids) ==
  {s \in [1 .. Cardinality(ids) -> ids] :
     /\ \A i, k \in DOMAIN s : i # k => s[i] # s[k]
     /\ \A i, k \in DOMAIN s :
          i < k => table[s[i]].created_at >= table[s[k]].created_at}

\* JobStorage.get_pending_jobs: the orders in which ORDER BY created_at ASC
\* can list the ids of ids (rows of equal created_at come in either order)
OrderByCreatedAt(table, ids) ==
  {s \in [1 .. Cardinality(ids) -> ids] :
     /\ \A i, k \in DOMAIN s : i # k => s[i] # s[k]
     /\ \A i, k \in DOMAIN s :
          i < k => table[s[i]].created_at <= table[s[k]].created_at}

\* JobStorage.get_pending_jobs(limit): the lists of rows it can return
GetPendingRows(table, now, limit) ==
  LET ready == ReadyRows(table, now)
      n == IF limit < Cardinality(ready) THEN limit ELSE Cardinality(ready)
  IN  {[i \in 1 .. n |-> table[s[i]]] : s \in OrderByCreatedAt(table, ready)}

\* JobStorage.update_job: every given field is written, updated_at is now
UpdateJob(table, job_id, updates, now) ==
  IF job_id \in DOMAIN table
  THEN [table EXCEPT ![job_id] = [updates EXCEPT !.updated_at = now]]
  ELSE table

\* reset_job_for_retry that also takes failed jobs
ResetWhere_DeadOrFailed(table, job_id) ==
  /\ job_id \in DOMAIN table
  /\ table[job_id].state = "dead" \/ table[job_id].state = "failed"

\* reset_job_for_retry as UPDATE ... WHERE id = ? alone
ResetWhere_IdOnly(table, job_id) == job_id \in DOMAIN table

\* JobStorage.reset_job_for_retry: the WHERE clause of its UPDATE
ResetWhere(table, job_id) ==
  job_id \in DOMAIN table /\ table[job_id].state = "dead"

\* reset_job_for_retry as a delete of the dead row and a new create_job
ResetRow_Recreate(row, now) ==
  [row EXCEPT !.state = "pending", !.attempts = 0, !.next_retry_at = NULL,
              !.error_message = NONE, !.created_at = now, !.updated_at = now]

\* reset_job_for_retry without error_message = NULL
ResetRow_KeepError(row, now) ==
  [row EXCEPT !.state = "pending", !.attempts = 0, !.next_retry_at = NULL,
              !.updated_at = now]

\* reset_job_for_retry without attempts = 0
ResetRow_KeepAttempts(row, now) ==
  [row EXCEPT !.state = "pending", !.next_retry_at = NULL,
              !.error_message = NONE, !.updated_at = now]

\* JobStorage.reset_job_for_retry: the SET clause of its UPDATE
ResetRow(row, now) ==
  [row EXCEPT !.state = "pending", !.attempts = 0, !.next_retry_at = NULL,
              !.error_message = NONE, !.updated_at = now]

\* JobStorage.get_stats: SELECT state, COUNT(*) ... GROUP BY state
GetStats(table) ==
  [st \in {table[j].state : j \in DOMAIN table} |->
     Cardinality({j \in DOMAIN table : table[j].state = st})]

\* the total of the counts of a get_stats result
RECURSIVE SumCounts(_, _)
SumCounts(stats, sts) ==
  IF sts = {} THEN 0
  ELSE LET st == CHOOSE x \in sts : TRUE
       IN  stats[st] + SumCounts(stats, sts \ {st})

StatsTotal(table) ==
  LET stats == GetStats(table) IN SumCounts(stats, DOMAIN stats)

\* ----------------------------------------------------------------- history
\* fails: executions that failed; resets: DLQ resets that took effect;
\* won, lost: acquire_job calls that returned True, False since the job was
\* last made ready (created, written back by a worker, or reset)
NoHist == [fails |-> 0, resets |-> 0, won |-> 0, lost |-> 0]

\* hist after worker w wrote the outcome of one execution of job j
Executed(j, success) ==
  [hist EXCEPT ![j].fails = IF success THEN @ ELSE @ + 1,
               ![j].won = 0, ![j].lost = 0]

\* ------------------------------------------------------- direct storage calls
\* the worker_pid_file does not exist
NoFile == [exists |-> FALSE, pids |-> {}, count |-> 0]

\* ret: the method called, its job_id, and what came back: ok is acquire_job's
\* return value, row holds the row reset_job_for_retry returned (empty for
\* None) or the count start_workers was given, raised names the exception the
\* call raised
NoCall == [op |-> "none", id |-> "none", ok |-> FALSE, row |-> {},
           raised |-> "none"]

Returned(op, job_id, ok, row, raised) ==
  [op |-> op, id |-> job_id, ok |-> ok, row |-> row, raised |-> raised]

\* JobStorage.get_job
GetJob(table, job_id) == IF job_id \in DOMAIN table THEN {table[job_id]} ELSE {}

\* create_job as INSERT OR REPLACE
InsertRow_Replace(table, row) ==
  [k \in DOMAIN table \cup {row.id} |-> IF k = row.id THEN row ELSE table[k]]

\* JobStorage.create_job: the table after its INSERT (id is the PRIMARY KEY:
\* the INSERT of a taken id raises sqlite3.IntegrityError and inserts nothing)
InsertRow(table, row) ==
  IF row.id \in DOMAIN table
  THEN table
  ELSE [k \in DOMAIN table \cup {row.id} |-> IF k = row.id THEN row ELSE table[k]]

\* ------------------------------------------------------------------- Init
Init ==
  /\ jobs = <<>>
  /\ clock = 0
  /\ pc = [w \in Workers |-> "poll"]
  /\ job_data = <<>>
  /\ hist = [j \in JobIds |-> NoHist]
  /\ ret = NoCall
  /\ pid_file = NoFile
  /\ procs = <<>>
  /\ running = FALSE

\* ---------------------------------------------------------------- actions
\* cli.enqueue / web.api_enqueue: get_job finds nothing, then create_job
Enqueue(j, command, max_retries) ==
  /\ j \notin DOMAIN jobs
  /\ jobs' = [k \in DOMAIN jobs \cup {j} |->
                IF k = j THEN NewRow(j, command, max_retries, clock) ELSE jobs[k]]
  /\ UNCHANGED <<clock, pc, job_data, hist>>
  /\ UNCHANGED rest

\* time passes
Tick ==
  /\ clock < MaxClock
  /\ clock' = clock + 1
  /\ UNCHANGED <<jobs, pc, job_data, hist>>
  /\ UNCHANGED rest

\* _worker_process: pending_jobs = storage.get_pending_jobs(limit=1), non-empty
\* (with no ready job the worker sleeps and polls again: no change of state)
GetPendingJobs(w) ==
  /\ pc[w] = "poll"
  /\ \E j \in PendingJobs(jobs, clock) :
       job_data' = [v \in DOMAIN job_data \cup {w} |->
                      IF v = w THEN jobs[j] ELSE job_data[v]]
  /\ pc' = [pc EXCEPT ![w] = "acquire"]
  /\ UNCHANGED <<jobs, clock, hist>>
  /\ UNCHANGED rest

\* _worker_process: storage.acquire_job(job_id)
AcquireJob(w) ==
  /\ pc[w] = "acquire"
  /\ LET j == job_data[w].id
     IN  IF AcquireWhere(jobs, j, clock)
         THEN /\ jobs' = [jobs EXCEPT ![j].state = "processing"]
              /\ pc' = [pc EXCEPT ![w] = "run"]
              /\ job_data' = job_data
              /\ hist' = [hist EXCEPT ![j].won = @ + 1]
         ELSE /\ jobs' = jobs
              /\ pc' = [pc EXCEPT ![w] = "poll"]
              /\ job_data' = [v \in DOMAIN job_data \ {w} |-> job_data[v]]
              /\ hist' = [hist EXCEPT ![j].lost = @ + 1]
  /\ UNCHANGED clock
  /\ UNCHANGED rest

\* _worker_process: job = Job(job_data); job.execute(); the outcome is written
RunJob(w) ==
  /\ pc[w] = "run"
  /\ LET job == job_data[w]
     IN  \E res \in Execute(job.command) :
           /\ jobs' = UpdateJob(jobs, job.id,
                                IF res[1] THEN MarkCompleted(job, clock)
                                          ELSE MarkFailed(job, res[2], clock),
                                clock)
           /\ hist' = Executed(job.id, res[1])
  /\ pc' = [pc EXCEPT ![w] = "poll"]
  /\ job_data' = [v \in DOMAIN job_data \ {w} |-> job_data[v]]
  /\ UNCHANGED clock
  /\ UNCHANGED rest

\* cli.dlq retry / web.api_dlq_retry: storage.reset_job_for_retry(job_id)
ResetJobForRetry(j) ==
  /\ hist[j].resets < MaxResets
  /\ ResetWhere(jobs, j)
  /\ jobs' = [jobs EXCEPT ![j] = ResetRow(jobs[j], clock)]
  /\ hist' = [hist EXCEPT ![j].resets = @ + 1, ![j].won = 0, ![j].lost = 0]
  /\ UNCHANGED <<clock, pc, job_data>>
  /\ UNCHANGED rest

Next ==
  \/ \E j \in JobIds, c \in Commands, m \in RetryInputs : Enqueue(j, c, m)
  \/ Tick
  \/ \E w \in Workers : GetPendingJobs(w)
  \/ \E w \in Workers : AcquireJob(w)
  \/ \E w \in Workers : RunJob(w)
  \/ \E j \in JobIds : ResetJobForRetry(j)

Spec == Init /\ [][Next]_vars

\* One worker process and no DLQ reset
Solo == "w1"

NextSolo ==
  \/ \E j \in JobIds, c \in Commands, m \in RetryInputs : Enqueue(j, c, m)
  \/ Tick
  \/ GetPendingJobs(Solo)
  \/ AcquireJob(Solo)
  \/ RunJob(Solo)

SpecSolo == Init /\ [][NextSolo]_vars

\* JobStorage.get_pending_jobs(limit), called directly
PendingCall(limit) ==
  /\ \E rows \in GetPendingRows(jobs, clock, limit) :
       ret' = Returned("get_pending_jobs", "none", FALSE,
                       {[limit |-> limit, rows |-> rows]}, "none")
  /\ UNCHANGED <<jobs, clock, pc, job_data, hist, pid_file, procs, running>>

\* One worker, and get_pending_jobs called directly with any limit
NextQuery ==
  \/ \E j \in JobIds, c \in Commands, m \in RetryInputs : Enqueue(j, c, m)
  \/ Tick
  \/ GetPendingJobs(Solo)
  \/ AcquireJob(Solo)
  \/ RunJob(Solo)
  \/ \E limit \in 0 .. MaxLimit : PendingCall(limit)

SpecQuery == Init /\ [][NextQuery]_vars

\* A worker holds a job that has failed a times before, each retry taken as
\* soon as its backoff had elapsed and this one late seconds after that: the
\* row it read in get_pending_jobs, and the table after its acquire_job
HeldRow(j, command, max_retries, a, late) ==
  LET due == Pow(BackoffBase, a + 1) - BackoffBase
  IN  [NewRow(j, command, max_retries, 0) EXCEPT
         !.state = IF a = 0 THEN "pending" ELSE "failed",
         !.attempts = a,
         !.next_retry_at = IF a = 0 THEN NULL ELSE due,
         !.updated_at = IF a = 0 THEN 0 ELSE due - Pow(BackoffBase, a),
         !.error_message = IF a = 0 THEN NONE ELSE ErrMsg]

InitBackoff ==
  \E j \in JobIds, c \in Commands, a \in 0 .. MaxAttemptsIn,
     m \in 0 .. MaxAttemptsIn + 2, late \in 0 .. MaxClock :
    /\ a < m \/ (a = 0 /\ m = 0)
    /\ jobs = [k \in {j} |-> [HeldRow(j, c, m, a, late) EXCEPT
                                !.state = "processing"]]
    /\ clock = Pow(BackoffBase, a + 1) - BackoffBase + late
    /\ pc = [w \in Workers |-> IF w = Solo THEN "run" ELSE "poll"]
    /\ job_data = [w \in {Solo} |-> HeldRow(j, c, m, a, late)]
    /\ hist = [k \in JobIds |->
                 IF k = j THEN [NoHist EXCEPT !.fails = a, !.won = 1] ELSE NoHist]
    /\ ret = NoCall
    /\ pid_file = NoFile
    /\ procs = <<>>
    /\ running = FALSE

\* One more execution of the held job
NextBackoff == RunJob(Solo)

SpecBackoff == InitBackoff /\ [][NextBackoff]_vars

\* The workers between a successful acquire_job of job j and their update_job
Holders(j) == {w \in Workers : pc[w] = "run" /\ job_data[w].id = j}

\* ------------------------------------------------- the worker pool manager
\* the process identifiers the system hands out
Pids == 1 .. MaxPid

\* the listed identifiers that name a worker of the pool right now
ListedWorkers == {p \in pid_file.pids \cap DOMAIN procs : procs[p] = "worker"}

\* a listed identifier now names a process of another user: os.kill(pid, 0)
\* in the wait loop raises PermissionError, which only the outer handler catches
ProbeRaises == \E p \in pid_file.pids \cap DOMAIN procs : procs[p] = "foreign"

\* WorkerManager.__init__: an invocation constructs a new manager instance
NewManager ==
  /\ running
  /\ running' = FALSE
  /\ ret' = Returned("WorkerManager", "none", FALSE, {}, "none")
  /\ UNCHANGED <<jobs, clock, pc, job_data, hist, pid_file, procs>>

\* start_workers without the test of self.running
StartWorkers_Unguarded(count) ==
  /\ ret' = Returned("start_workers", "none", FALSE, {count}, "none")
  /\ \E spawned \in SUBSET (Pids \ DOMAIN procs) :
       /\ Cardinality(spawned) = count
       /\ running' = TRUE
       /\ procs' = [p \in DOMAIN procs \cup spawned |->
                      IF p \in spawned THEN "worker" ELSE procs[p]]
       /\ pid_file' = [exists |-> TRUE, pids |-> spawned, count |-> count]
  /\ UNCHANGED <<jobs, clock, pc, job_data, hist>>

\* WorkerManager.start_workers(count)
StartWorkers(count) ==
  /\ ret' = Returned("start_workers", "none", FALSE, {count}, "none")
  /\ IF running
       THEN UNCHANGED <<pid_file, procs, running>>
       ELSE \E spawned \in SUBSET (Pids \ DOMAIN procs) :
              /\ Cardinality(spawned) = count
              /\ running' = TRUE
              /\ procs' = [p \in DOMAIN procs \cup spawned |->
                             IF p \in spawned THEN "worker" ELSE procs[p]]
              /\ pid_file' = [exists |-> TRUE, pids |-> spawned, count |-> count]
  /\ UNCHANGED <<jobs, clock, pc, job_data, hist>>

\* WorkerManager.stop_workers(): the listed workers end on SIGTERM (or on the
\* SIGKILL that follows the timeout); the record is unlinked and the flag
\* cleared only when the end of the try block is reached
StopWorkers ==
  /\ ret' = Returned("stop_workers", "none", FALSE, {}, "none")
  /\ IF ~pid_file.exists \/ pid_file.pids = {}
       THEN UNCHANGED <<pid_file, procs, running>>
       ELSE /\ procs' = [p \in DOMAIN procs \ ListedWorkers |-> procs[p]]
            /\ IF ProbeRaises
                 THEN UNCHANGED <<pid_file, running>>
                 ELSE pid_file' = NoFile /\ running' = FALSE
  /\ UNCHANGED <<jobs, clock, pc, job_data, hist>>

\* cli.stop in another invocation: stop_workers() of a manager instance of
\* its own, which shares the PID file and the processes but not the flag
StopWorkersElsewhere ==
  /\ ret' = Returned("stop_workers", "other", FALSE, {}, "none")
  /\ IF ~pid_file.exists \/ pid_file.pids = {}
       THEN UNCHANGED <<pid_file, procs>>
       ELSE /\ procs' = [p \in DOMAIN procs \ ListedWorkers |-> procs[p]]
            /\ IF ProbeRaises
                 THEN UNCHANGED pid_file
                 ELSE pid_file' = NoFile
  /\ UNCHANGED <<jobs, clock, pc, job_data, hist, running>>

\* a process ends by itself or is ended from outside the pool
ProcessExit(p) ==
  /\ p \in DOMAIN procs
  /\ procs' = [q \in DOMAIN procs \ {p} |-> procs[q]]
  /\ UNCHANGED <<jobs, clock, pc, job_data, hist, ret, pid_file, running>>

\* the system gives the free identifier p to a process of another user
PidReused(p) ==
  /\ p \notin DOMAIN procs
  /\ procs' = [q \in DOMAIN procs \cup {p} |-> IF q = p THEN "foreign" ELSE procs[q]]
  /\ UNCHANGED <<jobs, clock, pc, job_data, hist, ret, pid_file, running>>

NextPool ==
  \/ NewManager
  \/ \E count \in 0 .. MaxCount : StartWorkers(count)
  \/ StopWorkers
  \/ StopWorkersElsewhere
  \/ \E p \in Pids : ProcessExit(p)
  \/ \E p \in Pids : PidReused(p)

SpecPool == Init /\ [][NextPool]_vars

\* ------------------------------------------------- worker processes ending
\* the positions of a worker process that is running its loop: before
\* get_pending_jobs, before acquire_job, between acquire_job and update_job,
\* and in the handler of `except Exception`
Live == {"poll", "acquire", "run", "error"}

\* _worker_process.signal_handler: SIGTERM (or SIGINT) reaches worker w; the
\* handler calls sys.exit(0) wherever the loop is, and SystemExit is caught
\* by neither except clause of the loop
Sigterm(w) ==
  /\ pc[w] \in Live
  /\ pc' = [pc EXCEPT ![w] = "terminated"]
  /\ job_data' = [v \in DOMAIN job_data \ {w} |-> job_data[v]]
  /\ UNCHANGED <<jobs, clock, hist>>
  /\ UNCHANGED rest

\* stop_workers: os.kill(pid, signal.SIGKILL), or any kill -9 of worker w
Sigkill(w) ==
  /\ pc[w] \in Live
  /\ pc' = [pc EXCEPT ![w] = "killed"]
  /\ job_data' = [v \in DOMAIN job_data \ {w} |-> job_data[v]]
  /\ UNCHANGED <<jobs, clock, hist>>
  /\ UNCHANGED rest

\* start_workers: a new worker process takes the place of one that ended
StartWorker(w) ==
  /\ pc[w] \in {"terminated", "killed"}
  /\ pc' = [pc EXCEPT ![w] = "poll"]
  /\ UNCHANGED <<jobs, clock, job_data, hist>>
  /\ UNCHANGED rest

\* a step of the loop of worker w
WorkerStep(w) == GetPendingJobs(w) \/ AcquireJob(w) \/ RunJob(w)

NextCrash ==
  \/ \E j \in JobIds, c \in Commands, m \in RetryInputs : Enqueue(j, c, m)
  \/ Tick
  \/ \E w \in Workers : GetPendingJobs(w)
  \/ \E w \in Workers : AcquireJob(w)
  \/ \E w \in Workers : RunJob(w)
  \/ \E w \in Workers : Sigterm(w)
  \/ \E w \in Workers : Sigkill(w)
  \/ \E w \in Workers : StartWorker(w)

\* Workers end and are started again; a running worker keeps taking the steps
\* of its loop, ended workers are started again, and time advances
SpecCrash ==
  /\ Init /\ [][NextCrash]_vars
  /\ WF_vars(Tick)
  /\ \A w \in Workers : WF_vars(WorkerStep(w)) /\ WF_vars(StartWorker(w))

\* job j is in processing and no running worker holds it
Orphaned(j) == j \in DOMAIN jobs /\ jobs[j].state = "processing" /\ Holders(j) = {}

\* ------------------------------------------------- storage calls that raise
\* the loop without its `except Exception` clause: the exception ends the
\* worker process
StorageError_Fatal(w) ==
  /\ pc[w] \in {"poll", "acquire", "run"}
  /\ pc' = [pc EXCEPT ![w] = "exited"]
  /\ job_data' = [v \in DOMAIN job_data \ {w} |-> job_data[v]]
  /\ UNCHANGED <<jobs, clock, hist>>
  /\ UNCHANGED rest

\* _worker_process: the storage call worker w is about to make
\* (get_pending_jobs, acquire_job, or update_job after the execution) raises,
\* e.g. sqlite3.OperationalError, and writes nothing; `except Exception`
\* catches it
StorageError(w) ==
  /\ pc[w] \in {"poll", "acquire", "run"}
  /\ pc' = [pc EXCEPT ![w] = "error"]
  /\ job_data' = [v \in DOMAIN job_data \ {w} |-> job_data[v]]
  /\ UNCHANGED <<jobs, clock, hist>>
  /\ UNCHANGED rest

\* _worker_process: the handler has printed the error and slept; the loop
\* goes round
Resume(w) ==
  /\ pc[w] = "error"
  /\ pc' = [pc EXCEPT ![w] = "poll"]
  /\ UNCHANGED <<jobs, clock, job_data, hist>>
  /\ UNCHANGED rest

\* One worker whose storage calls may raise, and which may be signalled
NextFaulty ==
  \/ \E j \in JobIds, c \in Commands, m \in RetryInputs : Enqueue(j, c, m)
  \/ Tick
  \/ GetPendingJobs(Solo)
  \/ AcquireJob(Solo)
  \/ RunJob(Solo)
  \/ StorageError(Solo)
  \/ Resume(Solo)
  \/ Sigterm(Solo)
  \/ Sigkill(Solo)

SpecFaulty == Init /\ [][NextFaulty]_vars

\* JobStorage.create_job(job_id, command, max_retries), called directly
CreateJob(j, command, max_retries) ==
  /\ jobs' = InsertRow(jobs, NewRow(j, command, max_retries, clock))
  /\ ret' = IF j \in DOMAIN jobs
            THEN Returned("create_job", j, FALSE, {}, "IntegrityError")
            ELSE Returned("create_job", j, FALSE, {}, "none")
  /\ UNCHANGED <<clock, pc, job_data, hist, pid_file, procs, running>>

\* JobStorage.acquire_job(job_id), called directly
AcquireCall(j) ==
  /\ IF AcquireWhere(jobs, j, clock)
     THEN /\ jobs' = [jobs EXCEPT ![j].state = "processing"]
          /\ ret' = Returned("acquire_job", j, TRUE, {}, "none")
     ELSE /\ jobs' = jobs
          /\ ret' = Returned("acquire_job", j, FALSE, {}, "none")
  /\ UNCHANGED <<clock, pc, job_data, hist, pid_file, procs, running>>

\* JobStorage.reset_job_for_retry(job_id), called directly
ResetCall(j) ==
  /\ IF ResetWhere(jobs, j)
     THEN /\ hist[j].resets < MaxResets
          /\ jobs' = [jobs EXCEPT ![j] = ResetRow(jobs[j], clock)]
          /\ hist' = [hist EXCEPT ![j].resets = @ + 1, ![j].won = 0,
                                  ![j].lost = 0]
     ELSE /\ jobs' = jobs
          /\ hist' = hist
  /\ ret' = Returned("reset_job_for_retry", j, FALSE, GetJob(jobs', j), "none")
  /\ UNCHANGED <<clock, pc, job_data, pid_file, procs, running>>

\* JobStorage.update_job(job_id, **job.to_dict()), called as the worker loop
\* calls it, by a caller that holds the job and has read its row
UpdateCall(j) ==
  /\ j \in DOMAIN jobs /\ jobs[j].state = "processing"
  /\ \E res \in Execute(jobs[j].command) :
       /\ jobs' = UpdateJob(jobs, j,
                            IF res[1] THEN MarkCompleted(jobs[j], clock)
                                      ELSE MarkFailed(jobs[j], res[2], clock),
                            clock)
       /\ hist' = Executed(j, res[1])
  /\ ret' = Returned("update_job", j, FALSE, {}, "none")
  /\ UNCHANGED <<clock, pc, job_data, pid_file, procs, running>>

\* The storage methods called directly, with any id
NextStorage ==
  \/ \E j \in JobIds, c \in Commands, m \in RetryInputs : CreateJob(j, c, m)
  \/ \E j \in JobIds : AcquireCall(j)
  \/ \E j \in JobIds : UpdateCall(j)
  \/ \E j \in JobIds : ResetCall(j)
  \/ Tick

SpecStorage == Init /\ [][NextStorage]_vars

\* this step is a direct call of method op on job_id (a call that leaves ret
\* as it was repeats the call before it and changes nothing)
CallStep(op, job_id) == ret' # ret /\ ret'.op = op /\ ret'.id = job_id

\* worker w's acquire_job of job j returns True in this step
AcquireStep(w, j) ==
  pc[w] = "acquire" /\ pc'[w] = "run" /\ job_data[w].id = j

\* worker w, holding job j, writes the outcome of its execution in this step
OutcomeStep(w, j) ==
  w \in Holders(j) /\ pc'[w] = "poll"

\* worker w writes the outcome of a failed execution of job j in this step
FailureWrite(w, j) ==
  /\ pc[w] = "run" /\ pc'[w] = "poll" /\ job_data[w].id = j
  /\ hist'[j].fails = hist[j].fails + 1

\* the DLQ reset of job j takes effect in this step
ResetStep(j) == hist'[j].resets = hist[j].resets + 1

\* ------------------------------------------------------------------ claims

\* C1: of the acquire_job calls on one job id that are interleaved while the
\* job is ready, at most one returns True.
C1_AtMostOneAcquireWins == \A j \in JobIds : hist[j].won <= 1

\* C1 witness: two calls raced on a job that was never written back: one
\* returned True, one False.
C1_Witness ==
  \E j \in DOMAIN jobs :
    /\ hist[j].won = 1 /\ hist[j].lost = 1 /\ hist[j].resets = 0
    /\ jobs[j].state = "processing" /\ jobs[j].updated_at = jobs[j].created_at

\* C2: no job is held (acquired, outcome not yet written) by two workers.
C2_AtMostOneHolder == \A j \in JobIds : Cardinality(Holders(j)) <= 1

\* C2 witness: a worker holds a job that another worker has also read and is
\* about to try to acquire.
C2_Witness ==
  \E j \in JobIds, w \in Workers, v \in Workers :
    /\ w # v /\ Holders(j) = {w}
    /\ pc[v] = "acquire" /\ job_data[v].id = j

\* C3: a job that was never reset has attempts equal to the number of its
\* failed executions.
C3_AttemptsEqualFailures ==
  \A j \in DOMAIN jobs : hist[j].resets = 0 => jobs[j].attempts = hist[j].fails

\* C4: a job's stored attempts never decreases in a step, except in a DLQ
\* reset of that (dead) job.
C4_AttemptsNeverDecrease ==
  [][\A j \in DOMAIN jobs :
       \/ jobs'[j].attempts >= jobs[j].attempts
       \/ jobs[j].state = "dead" /\ ResetStep(j)]_vars

\* C5: every job with max_retries >= 0 that is not dead has
\* attempts <= max_retries.
C5_AttemptsWithinMaxRetries ==
  \A j \in DOMAIN jobs :
    jobs[j].max_retries >= 0 /\ jobs[j].state # "dead"
      => jobs[j].attempts <= jobs[j].max_retries

\* C5 witness: a job waiting for its last retry after a failure.
C5_Witness ==
  \E j \in DOMAIN jobs :
    /\ jobs[j].state = "failed" /\ jobs[j].attempts >= 1
    /\ jobs[j].attempts + 1 = jobs[j].max_retries

\* C6: next_retry_at is non-null exactly when the job's state is failed.
C6_NextRetryIffFailed ==
  \A j \in DOMAIN jobs :
    (jobs[j].next_retry_at # NULL) <=> (jobs[j].state = "failed")

\* C7: a job with max_retries = 2 whose command always fails is dead after
\* exactly 3 executions, not fewer and not more.
C7_DeadAfterThreeExecutions ==
  \A j \in DOMAIN jobs :
    jobs[j].command = "fail" /\ jobs[j].max_retries = 2
      => /\ jobs[j].state = "dead" => hist[j].fails = 3
         /\ hist[j].fails >= 3 => jobs[j].state = "dead"

\* C8: a completed job's state never changes; a dead job's state changes
\* only in a DLQ reset of that job.
C8_TerminalStatesStable ==
  [][\A j \in DOMAIN jobs :
       /\ jobs[j].state = "completed" => jobs'[j].state = "completed"
       /\ jobs[j].state = "dead"
            => jobs'[j].state = "dead" \/ ResetStep(j)]_vars

\* C8 witness: a job is completed or dead while a worker that read it when
\* it was ready is about to try to acquire it.
C8_Witness ==
  \E j \in DOMAIN jobs, w \in Workers :
    /\ jobs[j].state \in {"completed", "dead"}
    /\ pc[w] = "acquire" /\ job_data[w].id = j

\* C9: a job that was never acquired is pending, and a job completed by its
\* first execution has completed_at set and attempts = 1.
C9_CompletedWithOneAttempt ==
  \A j \in DOMAIN jobs :
    /\ hist[j].won = 0 /\ hist[j].fails = 0 /\ jobs[j].state # "completed"
         => jobs[j].state = "pending"
    /\ jobs[j].state = "completed" /\ hist[j].fails = 0
         => jobs[j].completed_at # NULL /\ jobs[j].attempts = 1

\* C10: with one worker and no DLQ reset, a job with max_retries = 2 whose
\* command always fails is never completed, is executed at most twice, and
\* after the second execution is dead with attempts = 2 and a non-empty
\* error_message; it is not dead before.
C10_DeadWithTwoAttempts ==
  \A j \in DOMAIN jobs :
    jobs[j].command = "fail" /\ jobs[j].max_retries = 2
      => /\ jobs[j].state # "completed"
         /\ hist[j].fails <= 2
         /\ jobs[j].state = "dead" => hist[j].fails = 2
         /\ hist[j].fails = 2
              => /\ jobs[j].state = "dead"
                 /\ jobs[j].attempts = 2
                 /\ jobs[j].error_message # NONE
                 /\ jobs[j].error_message # ""

\* C10 witness: such a job is dead.
C10_Witness ==
  \E j \in DOMAIN jobs :
    /\ jobs[j].command = "fail" /\ jobs[j].max_retries = 2
    /\ jobs[j].state = "dead" /\ hist[j].fails = 2


\* C11: a failed job whose next_retry_at is later than the clock is not
\* selected by get_pending_jobs and acquire_job on it returns False; once the
\* clock has reached next_retry_at it is selected and acquire_job succeeds.
C11_ReadinessGating ==
  /\ [](\A j \in DOMAIN jobs :
          jobs[j].state = "failed"
            => /\ j \in ReadyRows(jobs, clock) <=> jobs[j].next_retry_at <= clock
               /\ AcquireWhere(jobs, j, clock) <=> jobs[j].next_retry_at <= clock)
  /\ [][\A w \in Workers :
          /\ pc[w] = "poll" /\ pc'[w] = "acquire"
               => ~(/\ job_data'[w].state = "failed"
                    /\ job_data'[w].next_retry_at > clock)
          /\ pc[w] = "acquire" /\ pc'[w] # "acquire"
                /\ jobs[job_data[w].id].state = "failed"
               => (pc'[w] = "run"
                     <=> jobs[job_data[w].id].next_retry_at <= clock)]_vars

\* C11 witness: a worker has acquired a failed job whose backoff had elapsed.
C11_Witness ==
  \E j \in DOMAIN jobs :
    /\ jobs[j].state = "processing" /\ hist[j].won = 1
    /\ jobs[j].next_retry_at # NULL /\ jobs[j].next_retry_at <= clock

\* C12: acquire_job(id) returns True exactly when the job exists, is pending
\* or failed, and its next_retry_at is null or not later than now; it then
\* sets that job's state to processing and changes nothing else; when it
\* returns False no job record changes.
C12_AcquireIffReady ==
  [][\A j \in JobIds :
       CallStep("acquire_job", j)
         => LET ready == /\ j \in DOMAIN jobs
                         /\ jobs[j].state \in {"pending", "failed"}
                         /\ \/ jobs[j].next_retry_at = NULL
                            \/ jobs[j].next_retry_at <= clock
            IN  /\ ret'.ok <=> ready
                /\ ret'.ok => jobs' = [jobs EXCEPT ![j].state = "processing"]
                /\ ~ret'.ok => jobs' = jobs]_vars

\* C12 witness: acquire_job has returned False on a failed job whose backoff
\* has not elapsed.
C12_Witness ==
  /\ ret.op = "acquire_job" /\ ~ret.ok /\ ret.id \in DOMAIN jobs
  /\ jobs[ret.id].state = "failed" /\ jobs[ret.id].next_retry_at > clock

\* C13: reset_job_for_retry on a job that is not dead changes no field of
\* any job.
C13_ResetOfLiveJobChangesNothing ==
  [][\A j \in DOMAIN jobs :
       CallStep("reset_job_for_retry", j) /\ jobs[j].state # "dead"
         => jobs' = jobs]_vars

\* C13 witness: reset_job_for_retry was called on a failed job, which still
\* has its attempts, next_retry_at and error_message.
C13_Witness ==
  /\ ret.op = "reset_job_for_retry" /\ ret.id \in DOMAIN jobs
  /\ jobs[ret.id].state = "failed" /\ jobs[ret.id].attempts = 1
  /\ jobs[ret.id].next_retry_at # NULL /\ jobs[ret.id].error_message = ErrMsg

\* C14: reset_job_for_retry on an existing job that is not dead returns a
\* failure result (None) to its caller.
C14_ResetOfLiveJobReportsFailure ==
  [][\A j \in DOMAIN jobs :
       CallStep("reset_job_for_retry", j) /\ jobs[j].state # "dead"
         => ret'.row = {}]_vars

\* C15: a DLQ reset of a dead job leaves it pending with attempts 0, null
\* next_retry_at and null error_message, and ready: get_pending_jobs selects
\* it and acquire_job on it would succeed.
C15_ResetMakesReady ==
  [][\A j \in DOMAIN jobs :
       ResetStep(j)
         => /\ jobs[j].state = "dead"
            /\ jobs'[j].state = "pending" /\ jobs'[j].attempts = 0
            /\ jobs'[j].next_retry_at = NULL /\ jobs'[j].error_message = NONE
            /\ j \in ReadyRows(jobs', clock')
            /\ AcquireWhere(jobs', j, clock')]_vars

\* C15 witness: a job that was reset has been acquired again.
C15_Witness ==
  \E j \in DOMAIN jobs :
    /\ hist[j].resets = 1 /\ hist[j].won = 1
    /\ jobs[j].state = "processing" /\ jobs[j].attempts = 0

\* C16: create_job with a taken id raises the already-exists error and
\* changes no record; with a fresh id it inserts a pending record with
\* attempts 0 and null next_retry_at, completed_at and error_message, and
\* changes no other record.
C16_CreateJob ==
  [][\A j \in JobIds :
       CallStep("create_job", j)
         => IF j \in DOMAIN jobs
            THEN ret'.raised = "IntegrityError" /\ jobs' = jobs
            ELSE /\ ret'.raised = "none"
                 /\ DOMAIN jobs' = DOMAIN jobs \cup {j}
                 /\ \A k \in DOMAIN jobs : jobs'[k] = jobs[k]
                 /\ jobs'[j].id = j /\ jobs'[j].state = "pending"
                 /\ jobs'[j].attempts = 0 /\ jobs'[j].next_retry_at = NULL
                 /\ jobs'[j].completed_at = NULL
                 /\ jobs'[j].error_message = NONE]_vars

\* C16 witness: create_job was refused for the id of a job that has already
\* failed once, and the job still has its state and attempts.
C16_Witness ==
  /\ ret.op = "create_job" /\ ret.raised = "IntegrityError"
  /\ ret.id \in DOMAIN jobs
  /\ jobs[ret.id].state = "failed" /\ jobs[ret.id].attempts = 1

C18_OrphanedJobRunsAgain ==
  \A j \in JobIds :
    Orphaned(j) ~> (j \in DOMAIN jobs /\ jobs[j].state # "processing")

\* C19: a worker that receives SIGTERM while it holds a job has recorded the
\* job's outcome, so that the job has left processing, when it exits.
C19_SigtermFinishesIteration ==
  [][\A w \in Workers :
       pc[w] = "run" /\ pc'[w] = "terminated"
         => jobs'[job_data[w].id].state # "processing"]_vars

\* C20: a call of stop_workers made while the PID record exists leaves no PID
\* record behind, whatever became of the listed processes.
C20_StopRemovesPidRecord ==
  [][CallStep("stop_workers", "none") /\ pid_file.exists => ~pid_file'.exists]_vars

\* C21: start_workers on a manager marked running spawns no process and
\* leaves the PID record as it was; start_workers(count) on a manager not
\* marked running spawns exactly count workers and persists exactly their
\* process identifiers together with count.
C21_StartWorkersGuard ==
  [][CallStep("start_workers", "none")
       => IF running
          THEN procs' = procs /\ pid_file' = pid_file
          ELSE LET spawned == DOMAIN procs' \ DOMAIN procs
               IN  /\ ret'.row = {Cardinality(spawned)}
                   /\ \A p \in spawned : procs'[p] = "worker"
                   /\ \A p \in DOMAIN procs : p \in DOMAIN procs' /\ procs'[p] = procs[p]
                   /\ pid_file' = [exists |-> TRUE, pids |-> spawned,
                                   count |-> Cardinality(spawned)]]_vars

\* C21 witness: start_workers(2) was called on a running manager whose record
\* lists its one worker, which is still the only worker.
C21_Witness ==
  /\ ret.op = "start_workers" /\ ret.row = {2} /\ running
  /\ pid_file.exists /\ pid_file.count = 1 /\ Cardinality(pid_file.pids) = 1
  /\ \A p \in DOMAIN procs : procs[p] = "worker" => p \in pid_file.pids

\* C22: when a worker records a failed execution of a job it holds, the
\* job's record has its attempts incremented by one and the error message
\* recorded; it is failed with a next_retry_at if the incremented attempts
\* are below max_retries, and dead with a null next_retry_at otherwise.
C22_FailureWrite ==
  [][\A w \in Workers, j \in DOMAIN jobs :
       FailureWrite(w, j)
         => /\ jobs'[j].attempts = jobs[j].attempts + 1
            /\ jobs'[j].error_message = ErrMsg
            /\ IF jobs'[j].attempts < jobs'[j].max_retries
               THEN jobs'[j].state = "failed" /\ jobs'[j].next_retry_at # NULL
               ELSE jobs'[j].state = "dead" /\ jobs'[j].next_retry_at = NULL]_vars

\* C23: every job's state is one of pending, processing, completed, failed,
\* dead, and every change of a job's state is pending -> processing or
\* failed -> processing by acquire_job, processing -> completed, failed or
\* dead by the worker holding the job, or dead -> pending by
\* reset_job_for_retry.
C23_LegalTransitions ==
  /\ [](\A j \in DOMAIN jobs : jobs[j].state \in States)
  /\ [][\A j \in DOMAIN jobs :
          jobs'[j].state # jobs[j].state
            => \/ /\ jobs[j].state \in {"pending", "failed"}
                  /\ jobs'[j].state = "processing"
                  /\ \E w \in Workers : AcquireStep(w, j)
               \/ /\ jobs[j].state = "processing"
                  /\ jobs'[j].state \in {"completed", "failed", "dead"}
                  /\ \E w \in Workers : OutcomeStep(w, j)
               \/ /\ jobs[j].state = "dead"
                  /\ jobs'[j].state = "pending"
                  /\ ResetStep(j)]_vars

\* C23 witness: a job that went to dead, was reset, acquired and executed
\* again is failed and waits for its retry.
C23_Witness ==
  \E j \in DOMAIN jobs :
    /\ hist[j].resets = 1 /\ hist[j].won = 0
    /\ jobs[j].state = "failed" /\ jobs[j].next_retry_at # NULL

\* C24: get_pending_jobs(limit) returns exactly the ready jobs (pending or
\* failed, next_retry_at null or not later than now) in ascending created_at
\* order, truncated to limit; so a worker iteration tries to acquire only a
\* job that is ready and oldest-created among the ready ones at its query.
C24_PendingJobsOldestFirst ==
  [][/\ CallStep("get_pending_jobs", "none")
          => \A r \in ret'.row :
               LET ready == {j \in DOMAIN jobs :
                               /\ jobs[j].state \in {"pending", "failed"}
                               /\ \/ jobs[j].next_retry_at = NULL
                                  \/ jobs[j].next_retry_at <= clock}
                   got == {r.rows[i].id : i \in DOMAIN r.rows}
               IN  /\ got \subseteq ready
                   /\ \A i \in DOMAIN r.rows : r.rows[i] = jobs[r.rows[i].id]
                   /\ \A i, k \in DOMAIN r.rows : i # k => r.rows[i].id # r.rows[k].id
                   /\ Len(r.rows) = IF r.limit < Cardinality(ready)
                                     THEN r.limit ELSE Cardinality(ready)
                   /\ \A i, k \in DOMAIN r.rows :
                        i < k => r.rows[i].created_at <= r.rows[k].created_at
                   /\ \A j \in got, k \in ready \ got :
                        jobs[j].created_at <= jobs[k].created_at
     /\ \A w \in Workers :
          pc[w] = "poll" /\ pc'[w] = "acquire"
            => LET j == job_data'[w].id
               IN  /\ j \in DOMAIN jobs /\ job_data'[w] = jobs[j]
                   /\ jobs[j].state \in {"pending", "failed"}
                   /\ jobs[j].next_retry_at = NULL \/ jobs[j].next_retry_at <= clock
                   /\ \A k \in DOMAIN jobs :
                        /\ jobs[k].state \in {"pending", "failed"}
                        /\ jobs[k].next_retry_at = NULL \/ jobs[k].next_retry_at <= clock
                        => jobs[j].created_at <= jobs[k].created_at]_vars

\* C24 witness: get_pending_jobs(1) returned the older of two ready jobs, a
\* failed one whose backoff has elapsed, and left out the newer pending one.
C24_Witness ==
  /\ ret.op = "get_pending_jobs"
  /\ \E r \in ret.row, k \in DOMAIN jobs :
       /\ r.limit = 1 /\ Len(r.rows) = 1
       /\ r.rows[1].state = "failed" /\ r.rows[1].id # k
       /\ r.rows[1].id \in DOMAIN jobs /\ jobs[r.rows[1].id] = r.rows[1]
       /\ jobs[k].state = "pending" /\ jobs[k].created_at > r.rows[1].created_at

\* C25: every step that changes a job's record (a successful acquire_job, an
\* update_job, a successful reset_job_for_retry) sets its updated_at to the
\* time of the step; no step changes a job's state and leaves updated_at.
C25_UpdatedAtRefreshed ==
  [][\A j \in DOMAIN jobs :
       jobs'[j] # jobs[j] => jobs'[j].updated_at = clock]_vars

\* C26: job records are never deleted and their id, command, max_retries and
\* created_at never change once created, whatever acquisitions, outcome
\* writes and DLQ resets occur; the total of the get_stats counts is the
\* number of successful creates, which is the number of ids get_job finds.
C26_RecordsKeepIdentity ==
  /\ [](StatsTotal(jobs) = Cardinality({j \in JobIds : GetJob(jobs, j) # {}}))
  /\ [][\A j \in DOMAIN jobs :
          /\ GetJob(jobs', j) # {}
          /\ \A row \in GetJob(jobs', j) :
               /\ row.id = j /\ jobs[j].id = j
               /\ row.command = jobs[j].command
               /\ row.max_retries = jobs[j].max_retries
               /\ row.created_at = jobs[j].created_at]_vars

\* C26 witness: of two jobs, one was reset from the DLQ long after its
\* creation and then completed, by a write of a worker's copy of its row.
C26_Witness ==
  \E j \in DOMAIN jobs, k \in DOMAIN jobs :
    /\ j # k /\ hist[j].resets = 1 /\ jobs[j].state = "completed"
    /\ jobs[j].created_at < jobs[j].updated_at
    /\ StatsTotal(jobs) = 2

\* C27: a storage call that raises inside an iteration does not end the
\* worker: the worker goes to the handler and from there back to polling,
\* where it can acquire and process jobs again; a worker leaves its loop only
\* by a shutdown signal.
C27_ErrorsDoNotEndWorker ==
  /\ [](\A w \in Workers : pc[w] = "error" => ENABLED Resume(w))
  /\ [][\A w \in Workers :
          /\ pc[w] \in Live /\ pc'[w] \notin Live
               => pc'[w] \in {"terminated", "killed"}
          /\ pc[w] = "error" /\ pc'[w] # "error"
               => pc'[w] \in {"poll", "terminated", "killed"}]_vars

\* C27 witness: the worker's update_job of a job raised, leaving the job in
\* processing, and the same worker has since acquired another job.
C27_Witness ==
  \E j \in DOMAIN jobs :
    /\ Orphaned(j)
    /\ pc[Solo] = "run" /\ job_data[Solo].id # j

\* C28: every job in processing is held by a running worker that is between
\* its successful acquire_job of the job and its outcome write; no job stays
\* in processing after its worker exited or gave up the iteration.
C28_NoOrphanedJobs ==
  \A j \in DOMAIN jobs : jobs[j].state = "processing" => Holders(j) # {}

\* C29: when a call of stop_workers on the manager instance returns, the
\* instance is not marked running, so that its next start_workers spawns
\* workers; this on every return path: PID record missing, empty pid list,
\* error while stopping.
C29_StopClearsRunning ==
  [][CallStep("stop_workers", "none") => ~running']_vars

=============================================================================
